---- MODULE Spec2Model ----
(***************************************************************************)
(* A model of pkg/models of watsonx-go: the retry engine (Retry), the      *)
(* retrying transport wrapper (HttpClient.DoWithRetry, getReusableBody)    *)
(* and the structured error decoder (DecodeWatsonxError).                  *)
(*                                                                         *)
(* Durations are counted in whole seconds.  A body is a sequence of JSON   *)
(* lexemes (one lexeme stands for the bytes that spell it); a stream is a  *)
(* body with a read position, and may end in a read error instead of EOF.  *)
(***************************************************************************)
EXTENDS Integers, Sequences, FiniteSets, TLC

VARIABLES
  pc,              \* position of the goroutine that runs Retry / DoWithRetry / the decoder
  opts,            \* the RetryConfig (retry.go:24-32)
  ctxErr,          \* opts.context.Err(): NilErr until the token is cancelled
  n,               \* the loop counter of Retry
  resp,            \* the local resp of Retry; the argument object of DecodeWatsonxError
  err,             \* the local err of Retry; the value DecodeWatsonxError returned
  lastErr,         \* the local lastErr of Retry
  backoffDuration, \* the local backoffDuration of Retry
  timerReady,      \* a value is ready on the channel timer.After returned
  sel,             \* the case the select statement committed to
  ret,             \* what Retry / DoWithRetry returned
  calls,           \* number of invocations of retryableFunc
  onRetryCount,    \* number of invocations of opts.onRetry
  onRetryArgs,     \* the arguments of the latest invocation of opts.onRetry
  waits,           \* number of calls of opts.timer.After
  elapsed,         \* the time spent in backoff waits so far: the durations of the timers that fired
  req,             \* the *http.Request given to DoWithRetry (its Body field)
  origBody,        \* the caller's original request body (the object req.Body first names)
  origReads,       \* number of calls of io.ReadAll on the original request body
  getBody,         \* the closure getReusableBody returned
  sent,            \* the bodies the transport was handed, one per attempt
  arg,             \* the response as it was handed to DecodeWatsonxError
  reread           \* what a consumer reading resp.Body after the decoder obtained

vars == <<pc, opts, ctxErr, n, resp, err, lastErr, backoffDuration, timerReady, sel,
          ret, calls, onRetryCount, onRetryArgs, waits, req, origBody, origReads, getBody,
          sent, arg, reread, elapsed>>

-----------------------------------------------------------------------------
(* Bounds of the model *)

\* WithRetries(r) is tried for r in 0..MaxRetries
MaxRetries == 3
\* WithBackoff(d) and WithMaxJitter(d) are tried for d in -1..MaxDuration
MaxDuration == 2
\* every sequence of at most MaxLexemes lexemes is tried as a response body
MaxLexemes == 2
\* envelopes with at most MaxDetails error details are tried
MaxDetails == 2
\* request bodies of at most MaxBodyLen bytes are tried
MaxBodyLen == 2

(* Program constants *)
DefaultRetries == 3
DefaultBackoff == 1
DefaultMaxJitter == 1
StatusOK == 200

-----------------------------------------------------------------------------
(* Errors *)

MkErr(kind, sc, errs, tr) ==
  [kind |-> kind, StatusCode |-> sc, Errors |-> errs, Trace |-> tr]

\* the nil error
NilErr == MkErr("nil", 0, <<>>, "")
\* an error of the transport (the operation produced no usable response)
TransportErr == MkErr("transport", 0, <<>>, "")
\* the error of a failed Read of a body
ReadErr == MkErr("read", 0, <<>>, "")
\* context.Canceled
Canceled == MkErr("canceled", 0, <<>>, "")
\* &WatsonxError{StatusCode, Errors, Trace}
WatsonxError(sc, errs, tr) == MkErr("watsonx", sc, errs, tr)

ErrorDetail(code, message, moreInfo) ==
  [Code |-> code, Message |-> message, MoreInfo |-> moreInfo]

-----------------------------------------------------------------------------
(* Streams: io.ReadCloser *)

\* a reader over data which, read to its end, reports EOF or (fails) a read error
Stream(data, fails) ==
  [kind |-> "reader", data |-> data, pos |-> 0, fails |-> fails, closed |-> FALSE]

\* io.NopCloser(bytes.NewBuffer(b)), io.NopCloser(bytes.NewReader(b))
NewBuffer(b) == Stream(b, FALSE)

\* http.NoBody
NoBody == [Stream(<<>>, FALSE) EXCEPT !.kind = "NoBody"]

\* the nil io.ReadCloser
NilBody == [Stream(<<>>, FALSE) EXCEPT !.kind = "nil"]

\* io.ReadAll(s): the bytes from the read position on, the error, and the stream after
ReadAll(s) ==
  [bytes |-> SubSeq(s.data, s.pos + 1, Len(s.data)),
   err   |-> IF s.fails THEN ReadErr ELSE NilErr,
   body  |-> [s EXCEPT !.pos = Len(s.data)]]

Close(s) == [s EXCEPT !.closed = TRUE]

(* Responses: *http.Response *)
NilResp == [isNil |-> TRUE, StatusCode |-> 0, Body |-> NoBody]
Response(sc, body) == [isNil |-> FALSE, StatusCode |-> sc, Body |-> body]

-----------------------------------------------------------------------------
(* JSON: the lexemes of a body, and encoding/json's Unmarshal into a           *)
(* WatsonxErrorResponse                                                        *)

Lex(t, v) == [t |-> t, v |-> v]
LBrace == Lex("{", "")
RBrace == Lex("}", "")
LBrack == Lex("[", "")
RBrack == Lex("]", "")
Colon  == Lex(":", "")
Comma  == Lex(",", "")
LNull  == Lex("null", "")
LNum   == Lex("num", "")
\* bytes that spell no JSON lexeme, e.g. the start of an HTML error page
LJunk  == Lex("junk", "")
LStr(s) == Lex("str", s)

\* parsed JSON values
JStr(s)  == [k |-> "str",  s |-> s,  items |-> <<>>]
JNull    == [k |-> "null", s |-> "", items |-> <<>>]
JNum     == [k |-> "num",  s |-> "", items |-> <<>>]
JArr(xs) == [k |-> "arr",  s |-> "", items |-> xs]
JObj(ms) == [k |-> "obj",  s |-> "", items |-> ms]

ParseFail == [ok |-> FALSE, val |-> JNull, next |-> 0]
ParseOk(v, i) == [ok |-> TRUE, val |-> v, next |-> i]

RECURSIVE ParseValue(_, _), ParseElements(_, _, _), ParseMembers(_, _, _)

\* one JSON value starting at lexeme i
ParseValue(toks, i) ==
  IF i > Len(toks) THEN ParseFail
  ELSE LET tk == toks[i] IN
    CASE tk.t = "str"  -> ParseOk(JStr(tk.v), i + 1)
      [] tk.t = "null" -> ParseOk(JNull, i + 1)
      [] tk.t = "num"  -> ParseOk(JNum, i + 1)
      [] tk.t = "["    ->
           IF i + 1 <= Len(toks) /\ toks[i + 1].t = "]"
           THEN ParseOk(JArr(<<>>), i + 2)
           ELSE ParseElements(toks, i + 1, <<>>)
      [] tk.t = "{"    ->
           IF i + 1 <= Len(toks) /\ toks[i + 1].t = "}"
           THEN ParseOk(JObj(<<>>), i + 2)
           ELSE ParseMembers(toks, i + 1, <<>>)
      [] OTHER -> ParseFail

\* the elements of an array, after "[" or ","
ParseElements(toks, i, acc) ==
  LET e == ParseValue(toks, i) IN
  IF ~e.ok \/ e.next > Len(toks) THEN ParseFail
  ELSE IF toks[e.next].t = "," THEN ParseElements(toks, e.next + 1, Append(acc, e.val))
  ELSE IF toks[e.next].t = "]" THEN ParseOk(JArr(Append(acc, e.val)), e.next + 1)
  ELSE ParseFail

\* the members of an object, after "{" or ","
ParseMembers(toks, i, acc) ==
  IF i + 1 > Len(toks) \/ toks[i].t # "str" \/ toks[i + 1].t # ":" THEN ParseFail
  ELSE LET e == ParseValue(toks, i + 2) IN
    IF ~e.ok \/ e.next > Len(toks) THEN ParseFail
    ELSE IF toks[e.next].t = ","
         THEN ParseMembers(toks, e.next + 1, Append(acc, <<toks[i].v, e.val>>))
    ELSE IF toks[e.next].t = "}"
         THEN ParseOk(JObj(Append(acc, <<toks[i].v, e.val>>)), e.next + 1)
    ELSE ParseFail

\* a key matches a field name exactly or up to the case of its letters
Fold(key) ==
  CASE key = "Errors" -> "errors"
    [] key = "Trace"  -> "trace"
    [] key = "Code"   -> "code"
    [] OTHER -> key

RECURSIVE DetailFields(_, _, _)
\* the members of one element of "errors", stored into an ErrorDetail
DetailFields(ms, i, acc) ==
  IF i > Len(ms) THEN acc
  ELSE LET key == Fold(ms[i][1])
           v   == ms[i][2]
           known == key \in {"code", "message", "more_info"}
           bad == known /\ v.k \notin {"str", "null"}
           val == IF v.k # "str" THEN acc.val
                  ELSE CASE key = "code"      -> [acc.val EXCEPT !.Code = v.s]
                         [] key = "message"   -> [acc.val EXCEPT !.Message = v.s]
                         [] key = "more_info" -> [acc.val EXCEPT !.MoreInfo = v.s]
                         [] OTHER -> acc.val
       IN DetailFields(ms, i + 1, [ok |-> acc.ok /\ ~bad, val |-> val])

\* one element of "errors" as an ErrorDetail
DecodeDetail(v) ==
  LET zero == [ok |-> TRUE, val |-> ErrorDetail("", "", "")] IN
  CASE v.k = "obj"  -> DetailFields(v.items, 1, zero)
    [] v.k = "null" -> zero
    [] OTHER -> [zero EXCEPT !.ok = FALSE]

RECURSIVE DecodeDetails(_, _, _)
DecodeDetails(xs, i, acc) ==
  IF i > Len(xs) THEN acc
  ELSE LET d == DecodeDetail(xs[i]) IN
    DecodeDetails(xs, i + 1, [ok |-> acc.ok /\ d.ok, val |-> Append(acc.val, d.val)])

RECURSIVE EnvelopeFields(_, _, _)
\* the members of the top-level object, stored into a WatsonxErrorResponse
EnvelopeFields(ms, i, acc) ==
  IF i > Len(ms) THEN acc
  ELSE LET key == Fold(ms[i][1])
           v   == ms[i][2]
           ds  == DecodeDetails(v.items, 1, [ok |-> TRUE, val |-> <<>>])
           next ==
             CASE key = "errors" /\ v.k = "arr"  -> [ok |-> acc.ok /\ ds.ok, Errors |-> ds.val, Trace |-> acc.Trace]
               [] key = "errors" /\ v.k = "null" -> [acc EXCEPT !.Errors = <<>>]
               [] key = "errors" -> [acc EXCEPT !.ok = FALSE]
               [] key = "trace" /\ v.k = "str"   -> [acc EXCEPT !.Trace = v.s]
               [] key = "trace" /\ v.k = "null"  -> acc
               [] key = "trace" -> [acc EXCEPT !.ok = FALSE]
               [] OTHER -> acc
       IN EnvelopeFields(ms, i + 1, next)

\* json.Unmarshal(body, &apiErr): ok is "err == nil"
Unmarshal(body) ==
  LET p == ParseValue(body, 1)
      zero == [ok |-> TRUE, Errors |-> <<>>, Trace |-> ""] IN
  IF ~p.ok \/ p.next # Len(body) + 1 THEN [zero EXCEPT !.ok = FALSE]
  ELSE CASE p.val.k = "obj"  -> EnvelopeFields(p.val.items, 1, zero)
         [] p.val.k = "null" -> zero
         [] OTHER -> [zero EXCEPT !.ok = FALSE]

-----------------------------------------------------------------------------
(* errors.go *)

\* DecodeWatsonxError without the return on a failed json.Unmarshal
DecodeWatsonxErrorKeepsPartial(r) ==
  IF r.isNil THEN [err |-> WatsonxError(0, <<>>, ""), resp |-> r]
  ELSE LET rd == ReadAll(r.Body)
           wxErr == WatsonxError(r.StatusCode, <<>>, "")
           restored == [r EXCEPT !.Body = NewBuffer(rd.bytes)]
           apiErr == Unmarshal(rd.bytes)
       IN IF rd.err # NilErr THEN [err |-> wxErr, resp |-> [r EXCEPT !.Body = rd.body]]
          ELSE IF Len(rd.bytes) = 0 THEN [err |-> wxErr, resp |-> restored]
          ELSE [err  |-> WatsonxError(r.StatusCode, apiErr.Errors, apiErr.Trace),
                resp |-> restored]

\* DecodeWatsonxError(resp): the error it returns and the response object afterwards
DecodeWatsonxError(r) ==
  IF r.isNil THEN [err |-> WatsonxError(0, <<>>, ""), resp |-> r]
  ELSE LET rd == ReadAll(r.Body)
           wxErr == WatsonxError(r.StatusCode, <<>>, "")
           restored == [r EXCEPT !.Body = NewBuffer(rd.bytes)]
           apiErr == Unmarshal(rd.bytes)
       IN IF rd.err # NilErr THEN [err |-> wxErr, resp |-> [r EXCEPT !.Body = rd.body]]
          ELSE IF Len(rd.bytes) = 0 THEN [err |-> wxErr, resp |-> restored]
          ELSE IF ~apiErr.ok THEN [err |-> wxErr, resp |-> restored]
          ELSE [err  |-> WatsonxError(r.StatusCode, apiErr.Errors, apiErr.Trace),
                resp |-> restored]

-----------------------------------------------------------------------------
(* The bodies and responses tried *)

SeqsUpTo(S, k) == UNION {[1..m -> S] : m \in 0..k}

Details ==
  {ErrorDetail("invalid_request", "Invalid input parameter", "Check request payload"),
   ErrorDetail("rate_limit", "Too many requests", "")}
Traces == {"", "trace-id-123"}

DetailLexemes(d) ==
  <<LBrace, LStr("code"), Colon, LStr(d.Code), Comma,
    LStr("message"), Colon, LStr(d.Message), Comma,
    LStr("more_info"), Colon, LStr(d.MoreInfo), RBrace>>

RECURSIVE DetailsLexemes(_, _)
DetailsLexemes(errs, i) ==
  IF i > Len(errs) THEN <<>>
  ELSE (IF i > 1 THEN <<Comma>> ELSE <<>>) \o DetailLexemes(errs[i]) \o DetailsLexemes(errs, i + 1)

\* the error envelope {"errors":[{"code":..,"message":..,"more_info":..},..],"trace":..}
EnvelopeBody(errs, tr) ==
  <<LBrace, LStr("errors"), Colon, LBrack>> \o DetailsLexemes(errs, 1)
    \o <<RBrack, Comma, LStr("trace"), Colon, LStr(tr), RBrace>>

\* the same envelope with an unknown field first and its keys capitalised
LooseEnvelopeBody(errs, tr) ==
  <<LBrace, LStr("status"), Colon, LBrack, LNum, RBrack, Comma, LStr("Errors"), Colon, LBrack>>
    \o DetailsLexemes(errs, 1)
    \o <<RBrack, Comma, LStr("Trace"), Colon, LStr(tr), RBrace>>

\* bodies that are not an error envelope: JSON of another shape, or no JSON at all
MalformedBodies ==
  LET e == EnvelopeBody(<<ErrorDetail("invalid_request", "Invalid input parameter", "")>>,
                        "trace-id-123") IN
  {<<LJunk, LJunk, LJunk>>,
   <<LBrack>> \o e \o <<RBrack>>,
   e \o <<LJunk>>,
   SubSeq(e, 1, Len(e) - 1),
   <<LBrace, LStr("errors"), Colon, LStr("invalid_request"), Comma,
     LStr("trace"), Colon, LStr("trace-id-123"), RBrace>>,
   <<LBrace, LStr("errors"), Colon, LBrack, LStr("invalid_request"), RBrack, Comma,
     LStr("trace"), Colon, LStr("trace-id-123"), RBrace>>,
   <<LBrace, LStr("errors"), Colon, LBrack, RBrack, Comma,
     LStr("trace"), Colon, LBrack, LStr("trace-id-123"), RBrack, RBrace>>}

Alphabet ==
  {LBrace, RBrace, LBrack, RBrack, Colon, Comma, LNull, LNum, LJunk,
   LStr("errors"), LStr("trace")}

\* every short body, among them the empty one
ShortBodies == SeqsUpTo(Alphabet, MaxLexemes)

EnvelopeArgs == SeqsUpTo(Details, MaxDetails) \X Traces

EnvelopeBodies ==
  {EnvelopeBody(a[1], a[2]) : a \in EnvelopeArgs}
    \cup {LooseEnvelopeBody(a[1], a[2]) : a \in EnvelopeArgs}

DecodeBodies == ShortBodies \cup MalformedBodies \cup EnvelopeBodies

-----------------------------------------------------------------------------
(* The values of the variables a specification does not use *)

NoRet == [returned |-> FALSE, resp |-> NilResp, err |-> NilErr]
Returned(r, e) == [returned |-> TRUE, resp |-> r, err |-> e]
NoRead == [done |-> FALSE, bytes |-> <<>>, err |-> NilErr]

newDefaultRetryConfig ==
  [retries |-> DefaultRetries, backoff |-> DefaultBackoff, maxJitter |-> DefaultMaxJitter,
   retryIf |-> "default"]

RetryIdle ==
  /\ opts = newDefaultRetryConfig
  /\ ctxErr = NilErr
  /\ n = 0
  /\ lastErr = NilErr
  /\ backoffDuration = 0
  /\ timerReady = FALSE
  /\ sel = "none"
  /\ ret = NoRet
  /\ calls = 0
  /\ onRetryCount = 0
  /\ onRetryArgs = <<0, NilErr>>
  /\ waits = 0
  /\ elapsed = 0

DoIdle ==
  /\ req = [Body |-> NilBody]
  /\ origBody = NilBody
  /\ origReads = 0
  /\ getBody = [noBody |-> TRUE, bytes |-> <<>>]
  /\ sent = <<>>

DecodeIdle ==
  /\ arg = NilResp
  /\ reread = NoRead

retryVars == <<opts, ctxErr, n, lastErr, backoffDuration, timerReady, sel, ret, calls,
               onRetryCount, onRetryArgs, waits, elapsed>>
doVars == <<req, origBody, origReads, getBody, sent>>
decodeVars == <<arg, reread>>

-----------------------------------------------------------------------------
(* DecodeWatsonxError called on a response, and a consumer that then reads the *)
(* response's body                                                             *)

DecodeStatuses == {400, 500}

DecodeInit ==
  /\ pc = "decode"
  /\ arg \in {NilResp} \cup
       {Response(sc, Stream(b, f)) : sc \in DecodeStatuses, b \in DecodeBodies, f \in BOOLEAN}
  /\ resp = arg
  /\ err = NilErr
  /\ reread = NoRead
  /\ RetryIdle
  /\ DoIdle

\* err := DecodeWatsonxError(resp)
Decode ==
  /\ pc = "decode"
  /\ LET d == DecodeWatsonxError(resp) IN
       /\ err' = d.err
       /\ resp' = d.resp
  /\ pc' = "decoded"
  /\ UNCHANGED <<retryVars, doVars, decodeVars>>

\* io.ReadAll(resp.Body) by a later consumer of the response
Reread ==
  /\ pc = "decoded"
  /\ ~resp.isNil
  /\ LET rd == ReadAll(resp.Body) IN
       /\ reread' = [done |-> TRUE, bytes |-> rd.bytes, err |-> rd.err]
       /\ resp' = [resp EXCEPT !.Body = rd.body]
  /\ pc' = "reread"
  /\ UNCHANGED <<retryVars, doVars, arg, err>>

DecodeNext == Decode \/ Reread

SpecDecode == DecodeInit /\ [][DecodeNext]_vars

-----------------------------------------------------------------------------
(* retry.go: Retry *)

\* the predicates tried for opts.retryIf; "default" is the one of newDefaultRetryConfig
RetryIfs == {"default", "always", "never", "rateLimited"}

\* opts.retryIf(e)
RetryIf(p, e) ==
  CASE p = "default"     -> e # NilErr
    [] p = "always"      -> TRUE
    [] p = "never"       -> FALSE
    [] p = "rateLimited" -> e.kind = "watsonx" /\ e.StatusCode = 429

\* Success with the comparison of the status inverted
SuccessWrongStatus(r, e) == e = NilErr /\ ~r.isNil /\ r.StatusCode # StatusOK

\* err == nil && resp != nil && resp.StatusCode == http.StatusOK
Success(r, e) == e = NilErr /\ ~r.isNil /\ r.StatusCode = StatusOK

\* the conversion of a non-200 response into an error: the err and resp afterwards
Classify(r, e) ==
  IF e = NilErr /\ ~r.isNil
  THEN LET rd == ReadAll(r.Body)
           closed == [r EXCEPT !.Body = Close(rd.body)]
           d == DecodeWatsonxError([r EXCEPT !.Body = NewBuffer(rd.bytes)])
       IN IF rd.err # NilErr THEN [err |-> rd.err, resp |-> closed]
          ELSE [err |-> d.err, resp |-> d.resp]
  ELSE [err |-> e, resp |-> r]

\* Jitters with maxJitter itself among the values
JittersInclusive(maxJitter) == IF maxJitter > 0 THEN 0..maxJitter ELSE {0}

\* the values rand.Int63n(int64(maxJitter)) may return; no jitter unless maxJitter > 0
Jitters(maxJitter) == IF maxJitter > 0 THEN 0..(maxJitter - 1) ELSE {0}

\* what retryableFunc may return
RetryStatuses == {StatusOK, 429}
RetryBodies ==
  {<<>>, <<LJunk>>,
   EnvelopeBody(<<ErrorDetail("invalid_request", "Invalid input parameter",
                              "Check request payload")>>, "trace-id-123")}
Responses ==
  {NilResp} \cup
  {Response(sc, Stream(b, f)) : sc \in RetryStatuses, b \in RetryBodies, f \in BOOLEAN}
Outcomes == Responses \X {NilErr, TransportErr}

\* the state when Retry is called
RetryInit ==
  /\ pc = "opts"
  /\ resp = NilResp
  /\ err = NilErr
  /\ RetryIdle
  /\ DoIdle
  /\ DecodeIdle

\* the options, applied to the default configuration
WithRetries(retries) ==
  /\ pc = "opts"
  /\ opts' = [opts EXCEPT !.retries = retries]
  /\ UNCHANGED <<pc, ctxErr, n, resp, err, lastErr, backoffDuration, timerReady, sel, ret,
                 calls, onRetryCount, onRetryArgs, waits, doVars, decodeVars, elapsed>>

WithBackoff(backoff) ==
  /\ pc = "opts"
  /\ opts' = [opts EXCEPT !.backoff = backoff]
  /\ UNCHANGED <<pc, ctxErr, n, resp, err, lastErr, backoffDuration, timerReady, sel, ret,
                 calls, onRetryCount, onRetryArgs, waits, doVars, decodeVars, elapsed>>

WithMaxJitter(maxJitter) ==
  /\ pc = "opts"
  /\ opts' = [opts EXCEPT !.maxJitter = maxJitter]
  /\ UNCHANGED <<pc, ctxErr, n, resp, err, lastErr, backoffDuration, timerReady, sel, ret,
                 calls, onRetryCount, onRetryArgs, waits, doVars, decodeVars, elapsed>>

WithRetryIf(retryIf) ==
  /\ pc = "opts"
  /\ opts' = [opts EXCEPT !.retryIf = retryIf]
  /\ UNCHANGED <<pc, ctxErr, n, resp, err, lastErr, backoffDuration, timerReady, sel, ret,
                 calls, onRetryCount, onRetryArgs, waits, doVars, decodeVars, elapsed>>

\* var lastErr error; n := uint(0)
EnterLoop ==
  /\ pc = "opts"
  /\ pc' = "loop"
  /\ n' = 0
  /\ lastErr' = NilErr
  /\ UNCHANGED <<opts, ctxErr, resp, err, backoffDuration, timerReady, sel, ret, calls,
                 onRetryCount, onRetryArgs, waits, doVars, decodeVars, elapsed>>

\* n < opts.retries is false: return nil, lastErr
LoopExit ==
  /\ pc = "loop"
  /\ ~(n < opts.retries)
  /\ ret' = Returned(NilResp, lastErr)
  /\ pc' = "done"
  /\ UNCHANGED <<opts, ctxErr, n, resp, err, lastErr, backoffDuration, timerReady, sel,
                 calls, onRetryCount, onRetryArgs, waits, doVars, decodeVars, elapsed>>

\* if err := opts.context.Err(); err != nil { return nil, err }
CheckCancelled ==
  /\ pc = "loop"
  /\ n < opts.retries
  /\ ctxErr # NilErr
  /\ ret' = Returned(NilResp, ctxErr)
  /\ pc' = "done"
  /\ UNCHANGED <<opts, ctxErr, n, resp, err, lastErr, backoffDuration, timerReady, sel,
                 calls, onRetryCount, onRetryArgs, waits, doVars, decodeVars, elapsed>>

\* Invoke without the check of the token
InvokeUnchecked ==
  /\ pc = "loop"
  /\ n < opts.retries
  /\ calls' = calls + 1
  /\ pc' = "call"
  /\ UNCHANGED <<opts, ctxErr, n, resp, err, lastErr, backoffDuration, timerReady, sel,
                 ret, onRetryCount, onRetryArgs, waits, doVars, decodeVars, elapsed>>

\* retryableFunc is called
Invoke ==
  /\ pc = "loop"
  /\ n < opts.retries
  /\ ctxErr = NilErr
  /\ calls' = calls + 1
  /\ pc' = "call"
  /\ UNCHANGED <<opts, ctxErr, n, resp, err, lastErr, backoffDuration, timerReady, sel,
                 ret, onRetryCount, onRetryArgs, waits, doVars, decodeVars, elapsed>>

\* resp, err := retryableFunc()
OpReturn ==
  /\ pc = "call"
  /\ \E o \in Outcomes :
       /\ resp' = o[1]
       /\ err' = o[2]
  /\ pc' = "returned"
  /\ UNCHANGED <<opts, ctxErr, n, lastErr, backoffDuration, timerReady, sel, ret, calls,
                 onRetryCount, onRetryArgs, waits, doVars, decodeVars, elapsed>>

\* AfterCall returning the error of the last attempt without asking for a retry
AfterCallStopsAtLast(r, e) ==
  LET c == Classify(r, e) IN
  IF Success(r, e)
  THEN /\ resp' = r
       /\ err' = e
       /\ ret' = Returned(r, NilErr)
       /\ pc' = "done"
  ELSE /\ resp' = c.resp
       /\ err' = c.err
       /\ IF ~RetryIf(opts.retryIf, c.err) \/ ~(n + 1 < opts.retries)
          THEN /\ ret' = Returned(NilResp, c.err)
               /\ pc' = "done"
          ELSE /\ ret' = ret
               /\ pc' = "retry"

\* AfterCall looking at the token before the result of the operation
AfterCallChecksToken(r, e) ==
  LET c == Classify(r, e) IN
  IF ctxErr # NilErr
  THEN /\ resp' = r
       /\ err' = e
       /\ ret' = Returned(NilResp, ctxErr)
       /\ pc' = "done"
  ELSE IF Success(r, e)
  THEN /\ resp' = r
       /\ err' = e
       /\ ret' = Returned(r, NilErr)
       /\ pc' = "done"
  ELSE /\ resp' = c.resp
       /\ err' = c.err
       /\ IF ~RetryIf(opts.retryIf, c.err)
          THEN /\ ret' = Returned(NilResp, c.err)
               /\ pc' = "done"
          ELSE /\ ret' = ret
               /\ pc' = "retry"

\* AfterCall returning lastErr, not err, when the predicate rejects the error
AfterCallReturnsLastErr(r, e) ==
  LET c == Classify(r, e) IN
  IF Success(r, e)
  THEN /\ resp' = r
       /\ err' = e
       /\ ret' = Returned(r, NilErr)
       /\ pc' = "done"
  ELSE /\ resp' = c.resp
       /\ err' = c.err
       /\ IF ~RetryIf(opts.retryIf, c.err)
          THEN /\ ret' = Returned(NilResp, lastErr)
               /\ pc' = "done"
          ELSE /\ ret' = ret
               /\ pc' = "retry"

\* with (r, e) what retryableFunc returned: the success test, the conversion of a
\* non-200 response and the predicate
AfterCall(r, e) ==
  LET c == Classify(r, e) IN
  IF Success(r, e)
  THEN /\ resp' = r
       /\ err' = e
       /\ ret' = Returned(r, NilErr)
       /\ pc' = "done"
  ELSE /\ resp' = c.resp
       /\ err' = c.err
       /\ IF ~RetryIf(opts.retryIf, c.err)
          THEN /\ ret' = Returned(NilResp, c.err)
               /\ pc' = "done"
          ELSE /\ ret' = ret
               /\ pc' = "retry"

Decide ==
  /\ pc = "returned"
  /\ AfterCall(resp, err)
  /\ UNCHANGED <<opts, ctxErr, n, lastErr, backoffDuration, timerReady, sel, calls,
                 onRetryCount, onRetryArgs, waits, doVars, decodeVars, elapsed>>

\* NotifyRetry giving onRetry the loop counter n, not n+1
NotifyRetryZeroBased ==
  /\ pc = "retry"
  /\ lastErr' = err
  /\ onRetryCount' = onRetryCount + 1
  /\ onRetryArgs' = <<n, err>>
  /\ pc' = "backoff"
  /\ UNCHANGED <<opts, ctxErr, n, resp, err, backoffDuration, timerReady, sel, ret, calls,
                 waits, doVars, decodeVars, elapsed>>

\* NotifyRetry keeping the first error in lastErr
NotifyRetryKeepsFirst ==
  /\ pc = "retry"
  /\ lastErr' = (IF lastErr = NilErr THEN err ELSE lastErr)
  /\ onRetryCount' = onRetryCount + 1
  /\ onRetryArgs' = <<n + 1, err>>
  /\ pc' = "backoff"
  /\ UNCHANGED <<opts, ctxErr, n, resp, err, backoffDuration, timerReady, sel, ret, calls,
                 waits, doVars, decodeVars, elapsed>>

\* lastErr = err; opts.onRetry(n+1, err)
NotifyRetry ==
  /\ pc = "retry"
  /\ lastErr' = err
  /\ onRetryCount' = onRetryCount + 1
  /\ onRetryArgs' = <<n + 1, err>>
  /\ pc' = "backoff"
  /\ UNCHANGED <<opts, ctxErr, n, resp, err, backoffDuration, timerReady, sel, ret, calls,
                 waits, doVars, decodeVars, elapsed>>

\* backoffDuration := opts.backoff (+ jitter); opts.timer.After(backoffDuration)
StartTimer ==
  /\ pc = "backoff"
  /\ \E jitter \in Jitters(opts.maxJitter) : backoffDuration' = opts.backoff + jitter
  /\ waits' = waits + 1
  /\ timerReady' = FALSE
  /\ sel' = "none"
  /\ pc' = "select"
  /\ UNCHANGED <<opts, ctxErr, n, resp, err, lastErr, ret, calls, onRetryCount,
                 onRetryArgs, doVars, decodeVars, elapsed>>

\* the cases of the select statement that can proceed
ReadyCases ==
  (IF timerReady THEN {"timer"} ELSE {}) \cup (IF ctxErr # NilErr THEN {"done"} ELSE {})

\* the select statement is reached: one of the ready cases is chosen, or the goroutine parks
SelectPoll ==
  /\ pc = "select"
  /\ IF ReadyCases = {}
     THEN /\ pc' = "parked"
          /\ sel' = sel
     ELSE /\ pc' = "resume"
          /\ sel' \in ReadyCases
  /\ UNCHANGED <<opts, ctxErr, n, resp, err, lastErr, backoffDuration, timerReady, ret,
                 calls, onRetryCount, onRetryArgs, waits, doVars, decodeVars, elapsed>>

\* the timer fires, backoffDuration (if positive) after it was started: its channel
\* becomes ready, and a goroutine parked on it is woken
TimerFire ==
  /\ pc \in {"select", "parked"}
  /\ ~timerReady
  /\ timerReady' = TRUE
  /\ elapsed' = elapsed + (IF backoffDuration > 0 THEN backoffDuration ELSE 0)
  /\ IF pc = "parked"
     THEN /\ sel' = "timer"
          /\ pc' = "resume"
     ELSE UNCHANGED <<sel, pc>>
  /\ UNCHANGED <<opts, ctxErr, n, resp, err, lastErr, backoffDuration, ret, calls,
                 onRetryCount, onRetryArgs, waits, doVars, decodeVars>>

\* the token is cancelled: Done() is closed, and a goroutine parked on it is woken
Cancel ==
  /\ pc # "done"
  /\ ctxErr = NilErr
  /\ ctxErr' = Canceled
  /\ IF pc = "parked"
     THEN /\ sel' = "done"
          /\ pc' = "resume"
     ELSE UNCHANGED <<sel, pc>>
  /\ UNCHANGED <<opts, n, resp, err, lastErr, backoffDuration, timerReady, ret, calls,
                 onRetryCount, onRetryArgs, waits, doVars, decodeVars, elapsed>>

\* WaitElapsed going back to the head of the loop without n++
WaitElapsedKeepsN ==
  /\ pc = "resume"
  /\ sel = "timer"
  /\ pc' = "loop"
  /\ UNCHANGED <<opts, ctxErr, n, resp, err, lastErr, backoffDuration, timerReady, sel, ret,
                 calls, onRetryCount, onRetryArgs, waits, doVars, decodeVars, elapsed>>

\* case <-opts.timer.After(backoffDuration): the next iteration, n++
WaitElapsed ==
  /\ pc = "resume"
  /\ sel = "timer"
  /\ n' = n + 1
  /\ pc' = "loop"
  /\ UNCHANGED <<opts, ctxErr, resp, err, lastErr, backoffDuration, timerReady, sel, ret,
                 calls, onRetryCount, onRetryArgs, waits, doVars, decodeVars, elapsed>>

\* WaitCancelled leaving the select for the next iteration instead of returning
WaitCancelledContinues ==
  /\ pc = "resume"
  /\ sel = "done"
  /\ n' = n + 1
  /\ pc' = "loop"
  /\ UNCHANGED <<opts, ctxErr, resp, err, lastErr, backoffDuration, timerReady, sel, ret,
                 calls, onRetryCount, onRetryArgs, waits, doVars, decodeVars, elapsed>>

\* case <-opts.context.Done(): return nil, opts.context.Err()
WaitCancelled ==
  /\ pc = "resume"
  /\ sel = "done"
  /\ ret' = Returned(NilResp, ctxErr)
  /\ pc' = "done"
  /\ UNCHANGED <<opts, ctxErr, n, resp, err, lastErr, backoffDuration, timerReady, sel,
                 calls, onRetryCount, onRetryArgs, waits, doVars, decodeVars, elapsed>>

Next ==
  \/ \E r \in 0..MaxRetries : WithRetries(r)
  \/ \E d \in (-1)..MaxDuration : WithBackoff(d)
  \/ \E d \in (-1)..MaxDuration : WithMaxJitter(d)
  \/ \E p \in RetryIfs : WithRetryIf(p)
  \/ EnterLoop
  \/ LoopExit
  \/ CheckCancelled
  \/ Invoke
  \/ OpReturn
  \/ Decide
  \/ NotifyRetry
  \/ StartTimer
  \/ SelectPoll
  \/ TimerFire
  \/ Cancel
  \/ WaitElapsed
  \/ WaitCancelled

Spec == RetryInit /\ [][Next]_vars

\* the steps of the goroutine that runs Retry, once the options are applied and but
\* for Decide
RetryStep ==
  \/ LoopExit
  \/ CheckCancelled
  \/ Invoke
  \/ NotifyRetry
  \/ StartTimer
  \/ SelectPoll
  \/ WaitElapsed
  \/ WaitCancelled

\* WF_vars(Decide), with ENABLED <<Decide>>_vars written as the guard of Decide:
\* AfterCall has a result for every resp and err, and it changes pc
DecideFair == []<>(pc # "returned") \/ []<><<Decide>>_vars

\* Retry under its scheduling: the caller gets to the loop, the goroutine keeps
\* running, every call of the operation returns and every timer fires; the token
\* may be cancelled or not
SpecFair ==
  /\ RetryInit
  /\ [][Next]_vars
  /\ WF_vars(EnterLoop)
  /\ WF_vars(RetryStep)
  /\ DecideFair
  /\ WF_vars(OpReturn)
  /\ WF_vars(TimerFire)

-----------------------------------------------------------------------------
(* retry.go: HttpClient.DoWithRetry and getReusableBody *)

\* the bytes of the request bodies tried
Bytes == {"a", "b"}

\* the closures getReusableBody returns
NoBodyFunc == [noBody |-> TRUE, bytes |-> <<>>]
ReaderFunc(b) == [noBody |-> FALSE, bytes |-> b]

\* GetBody handing out one shared reader, drained by the read that captured the bytes
GetBodyDrained(g) ==
  IF g.noBody THEN NoBody ELSE [NewBuffer(g.bytes) EXCEPT !.pos = Len(g.bytes)]

\* getBody(): a call of the closure
GetBody(g) == IF g.noBody THEN NoBody ELSE NewBuffer(g.bytes)

\* getReusableBody dropping the error of the read
getReusableBodyIgnoresErr(body) ==
  IF body.kind \in {"nil", "NoBody"}
  THEN [getBody |-> NoBodyFunc, err |-> NilErr, body |-> body, reads |-> 0]
  ELSE LET rd == ReadAll(body) IN
    [getBody |-> ReaderFunc(rd.bytes),
     err     |-> NilErr,
     body    |-> Close(rd.body),
     reads   |-> 1]

\* getReusableBody(req): the closure, the error, the body object afterwards, the reads made
getReusableBody(body) ==
  IF body.kind \in {"nil", "NoBody"}
  THEN [getBody |-> NoBodyFunc, err |-> NilErr, body |-> body, reads |-> 0]
  ELSE LET rd == ReadAll(body) IN
    [getBody |-> IF rd.err # NilErr THEN NoBodyFunc ELSE ReaderFunc(rd.bytes),
     err     |-> rd.err,
     body    |-> Close(rd.body),
     reads   |-> 1]

\* the state when DoWithRetry is called
DoInit ==
  /\ pc = "do"
  /\ origBody \in {NilBody, NoBody} \cup
       {Stream(b, f) : b \in SeqsUpTo(Bytes, MaxBodyLen), f \in BOOLEAN}
  /\ req = [Body |-> origBody]
  /\ origReads = 0
  /\ getBody = NoBodyFunc
  /\ sent = <<>>
  /\ resp = NilResp
  /\ err = NilErr
  /\ RetryIdle
  /\ DecodeIdle

\* getBody, err := getReusableBody(req); if err != nil { return nil, err }; Retry(...)
GetReusableBody ==
  /\ pc = "do"
  /\ LET g == getReusableBody(req.Body) IN
       /\ origBody' = g.body
       /\ req' = [Body |-> g.body]
       /\ origReads' = origReads + g.reads
       /\ getBody' = g.getBody
       /\ IF g.err # NilErr
          THEN /\ ret' = Returned(NilResp, g.err)
               /\ pc' = "done"
          ELSE /\ ret' = ret
               /\ pc' = "opts"
  /\ UNCHANGED <<opts, ctxErr, n, resp, err, lastErr, backoffDuration, timerReady, sel,
                 calls, onRetryCount, onRetryArgs, waits, sent, decodeVars, elapsed>>

\* the operation is called: req.Body = getBody(), then c.httpClient.Do(req) is entered
DoInvoke ==
  /\ pc = "loop"
  /\ n < opts.retries
  /\ ctxErr = NilErr
  /\ calls' = calls + 1
  /\ req' = [Body |-> GetBody(getBody)]
  /\ sent' = Append(sent, req'.Body)
  /\ pc' = "call"
  /\ UNCHANGED <<opts, ctxErr, n, resp, err, lastErr, backoffDuration, timerReady, sel,
                 ret, onRetryCount, onRetryArgs, waits, origBody, origReads, getBody,
                 decodeVars, elapsed>>

\* c.httpClient.Do(req) returns, having read some of req.Body and perhaps closed it
DoReturn ==
  /\ pc = "call"
  /\ \E k \in 0..Len(req.Body.data), cl \in BOOLEAN :
       req' = [Body |-> [req.Body EXCEPT !.pos = k, !.closed = cl]]
  /\ \E o \in Outcomes :
       /\ resp' = o[1]
       /\ err' = o[2]
  /\ pc' = "returned"
  /\ UNCHANGED <<opts, ctxErr, n, lastErr, backoffDuration, timerReady, sel, ret, calls,
                 onRetryCount, onRetryArgs, waits, origBody, origReads, getBody, sent,
                 decodeVars, elapsed>>

DoNext ==
  \/ GetReusableBody
  \/ EnterLoop
  \/ LoopExit
  \/ DoInvoke
  \/ DoReturn
  \/ Decide
  \/ NotifyRetry
  \/ StartTimer
  \/ SelectPoll
  \/ TimerFire
  \/ WaitElapsed

SpecDo == DoInit /\ [][DoNext]_vars

-----------------------------------------------------------------------------
(* The properties checked *)

\* a success as the specification defines it: no error, a response, status OK
IsOK(r, e) == e = NilErr /\ ~r.isNil /\ r.StatusCode = 200

\* Retry has returned and takes no further step
Terminal == pc = "done" => vars' = vars

\* C1: when the operation returns a 200 response with a nil error, Retry's next step
\* is to return exactly that response with a nil error, without another invocation,
\* without calling onRetry and without a wait; when that was the first call, the
\* operation has been invoked once, onRetry never and no wait was made.
SuccessShortCircuits ==
  [][/\ (pc = "returned" /\ IsOK(resp, err) /\ pc' # pc) =>
          /\ pc' = "done"
          /\ ret' = Returned(resp, NilErr)
          /\ calls' = calls
          /\ onRetryCount' = onRetryCount
          /\ waits' = waits
          /\ (n = 0 => calls' = 1 /\ onRetryCount' = 0 /\ waits' = 0)
     /\ Terminal]_vars

\* C1 witness: the first call succeeded although three attempts were configured
FirstCallSucceeded ==
  /\ pc = "done"
  /\ opts.retries = 3
  /\ calls = 1
  /\ IsOK(resp, err)
  /\ ret = Returned(resp, NilErr)
  /\ onRetryCount = 0

\* C2: with the default predicate, at least one attempt configured and no
\* cancellation, a run in which no call succeeded has invoked the operation exactly
\* opts.retries times and returns a nil response with a non-nil error.
ExhaustionBound ==
  (/\ pc = "done"
   /\ opts.retryIf = "default"
   /\ opts.retries >= 1
   /\ ctxErr = NilErr
   /\ ~IsOK(resp, err))
  => /\ calls = opts.retries
     /\ ret.resp.isNil
     /\ ret.err # NilErr

\* C3: when retryIf returns false for the error of the attempt, Retry's next step is
\* to return (nil, that error), without calling onRetry, without a wait and without
\* another invocation.
PredicateVeto ==
  [][/\ (pc = "returned" /\ ~IsOK(resp, err) /\ pc' # pc
           /\ ~RetryIf(opts.retryIf, Classify(resp, err).err)) =>
          /\ pc' = "done"
          /\ ret' = Returned(NilResp, Classify(resp, err).err)
          /\ calls' = calls
          /\ onRetryCount' = onRetryCount
          /\ waits' = waits
     /\ Terminal]_vars

\* C3 witness: the predicate rejected the error of the first of three attempts
VetoOnFirstAttempt ==
  /\ pc = "done"
  /\ opts.retries = 3
  /\ opts.retryIf = "rateLimited"
  /\ calls = 1
  /\ ret = Returned(NilResp, TransportErr)
  /\ onRetryCount = 0
  /\ waits = 0

\* C4: a cancellation that arrives while the goroutine is parked in the select of a
\* backoff wait commits the select to the Done case, and Retry's next step is then to
\* return (nil, cancellation error) without another invocation.
CancellationDuringWait ==
  [][/\ (pc = "parked" /\ ctxErr = NilErr /\ ctxErr' # NilErr) =>
          (pc' = "resume" /\ sel' = "done")
     /\ (pc = "resume" /\ sel = "done") =>
          /\ pc' = "done"
          /\ ret' = Returned(NilResp, Canceled)
          /\ calls' = calls
     /\ Terminal]_vars

\* C4 witness: cancelled in the wait that follows the last permitted attempt, before
\* the timer fired
CancelledInLastWait ==
  /\ pc = "done"
  /\ opts.retries = 3
  /\ calls = 3
  /\ n = 2
  /\ sel = "done"
  /\ ~timerReady
  /\ ret = Returned(NilResp, Canceled)

\* C5: Retry returns either a 200 response with a nil error or a nil response with a
\* non-nil error.
ReturnContract ==
  pc = "done" =>
    \/ IsOK(ret.resp, ret.err)
    \/ (ret.resp.isNil /\ ret.err # NilErr)

\* C6: the operation is invoked only from the head of the loop with the token not
\* cancelled; with the token cancelled there, Retry's next step is to return
\* (nil, cancellation error) with no invocation, no onRetry call and no wait.
PreAttemptCheck ==
  [][/\ (calls' # calls) => (pc = "loop" /\ ctxErr = NilErr /\ calls' = calls + 1)
     /\ (pc = "loop" /\ n < opts.retries /\ ctxErr # NilErr) =>
          /\ pc' = "done"
          /\ ret' = Returned(NilResp, Canceled)
          /\ calls' = calls
          /\ onRetryCount' = onRetryCount
          /\ waits' = waits
     /\ Terminal]_vars

\* C6 witness: Retry was called with an already cancelled token
CalledWithCancelledToken ==
  /\ pc = "done"
  /\ opts.retries >= 1
  /\ calls = 0
  /\ onRetryCount = 0
  /\ waits = 0
  /\ ret = Returned(NilResp, Canceled)

\* C7 as stated: when all opts.retries attempts were invoked and none succeeded,
\* Retry returns (nil, the error of the last attempt).
ExhaustionReturnsLastError ==
  (pc = "done" /\ opts.retries >= 1 /\ calls = opts.retries /\ ~IsOK(resp, err))
    => ret = Returned(NilResp, err)

\* C7 amended: when all opts.retries attempts were invoked and none succeeded, Retry
\* returns (nil, the error of the last attempt), unless the wait that follows the last
\* attempt was ended by the cancellation, and then it returns (nil, cancellation error).
ExhaustionReturnsLastErrorUnlessCancelled ==
  (pc = "done" /\ opts.retries >= 1 /\ calls = opts.retries /\ ~IsOK(resp, err))
    => /\ (sel # "done" => ret = Returned(NilResp, err))
       /\ (sel = "done" => ret = Returned(NilResp, Canceled))

\* C7 witness: three attempts failed, the last with a structured error, the three
\* waits elapsed and the loop ended
ExhaustedAfterThree ==
  /\ pc = "done"
  /\ opts.retries = 3
  /\ calls = 3
  /\ n = 3
  /\ err.kind = "watsonx"
  /\ Len(err.Errors) = 1
  /\ ret = Returned(NilResp, err)

\* C8: the original request body is read at most once, and once before the first
\* attempt when there is one to read; every attempt hands the transport an unread,
\* open body over the bytes of the original, an empty one when the request had none.
BodyReplay ==
  /\ origReads <= 1
  /\ Len(sent) = calls
  /\ calls >= 1 => origReads = (IF origBody.kind = "reader" THEN 1 ELSE 0)
  /\ \A i \in 1..Len(sent) :
       /\ sent[i].pos = 0
       /\ ~sent[i].closed
       /\ ~sent[i].fails
       /\ sent[i].data = origBody.data

\* C8 witness: two attempts failed after the transport had read the whole body, and
\* the third attempt was handed the two bytes again
ThirdAttemptReplayed ==
  /\ pc = "call"
  /\ calls = 3
  /\ Len(sent) = 3
  /\ sent[3].data = <<"a", "b">>
  /\ origBody.pos = 2
  /\ origBody.closed

\* C9: after DecodeWatsonxError returned for a response, a second read of the
\* response's body succeeds and yields the bytes the decoder read.
DecodeRestoresBody ==
  pc = "reread" =>
    /\ reread.err = NilErr
    /\ reread.bytes = ReadAll(arg.Body).bytes

\* C10: DecodeWatsonxError returns a structured error with the status code of the
\* response (0 for an absent one); details and trace are empty for an absent
\* response, a failed read, an empty, short or malformed body, and for an envelope
\* they are the envelope's errors, in order, and its trace.
DecodeClassification ==
  pc \in {"decoded", "reread"} =>
    /\ err.kind = "watsonx"
    /\ err.StatusCode = (IF arg.isNil THEN 0 ELSE arg.StatusCode)
    /\ (arg.isNil \/ arg.Body.fails \/ arg.Body.data \in ShortBodies \cup MalformedBodies)
         => (err.Errors = <<>> /\ err.Trace = "")
    /\ \A a \in EnvelopeArgs :
         (~arg.isNil /\ ~arg.Body.fails
            /\ arg.Body.data \in {EnvelopeBody(a[1], a[2]), LooseEnvelopeBody(a[1], a[2])})
         => (err.Errors = a[1] /\ err.Trace = a[2])

\* C10 witness: an envelope with two details and a trace was decoded
TwoDetailsDecoded ==
  /\ pc = "decoded"
  /\ arg.StatusCode = 400
  /\ Len(err.Errors) = 2
  /\ err.Errors[1].Code = "invalid_request"
  /\ err.Errors[2].Code = "rate_limit"
  /\ err.Trace = "trace-id-123"

\* C11: with the default predicate, at least one attempt configured and no
\* cancellation, a run in which no call succeeded has called onRetry and waited once
\* after every attempt, the last one included: the last number given to onRetry is
\* opts.retries and the time waited is at least opts.retries times opts.backoff.
WaitsAfterEveryFailure ==
  (/\ pc = "done"
   /\ opts.retryIf = "default"
   /\ opts.retries >= 1
   /\ ctxErr = NilErr
   /\ ~IsOK(resp, err))
  => /\ onRetryCount = opts.retries
     /\ onRetryArgs[1] = opts.retries
     /\ waits = opts.retries
     /\ elapsed >= opts.retries * opts.backoff

\* C12: the configuration Retry runs with has retries >= 1, backoff >= 0 and
\* maxJitter >= 0, and a run whose token is not cancelled invokes the operation at
\* least once.
ConfigInvariant ==
  pc \notin {"opts"} =>
    /\ opts.retries >= 1
    /\ opts.backoff >= 0
    /\ opts.maxJitter >= 0
    /\ (pc = "done" /\ ctxErr = NilErr => calls >= 1)

\* C13: when the read of the original request body fails, DoWithRetry returns
\* (nil, the read error) and the transport is never invoked: no attempt, no onRetry
\* call, no wait.
BodyReplayError ==
  (pc # "do" /\ origBody.kind = "reader" /\ origBody.fails) =>
    /\ pc = "done"
    /\ ret = Returned(NilResp, ReadErr)
    /\ calls = 0
    /\ sent = <<>>
    /\ onRetryCount = 0
    /\ waits = 0

\* C13 witness: the read of a two-byte request body failed
OriginalReadFailed ==
  /\ pc = "done"
  /\ origBody.fails
  /\ origBody.data = <<"a", "b">>
  /\ origReads = 1
  /\ ret = Returned(NilResp, ReadErr)

\* C14: when the select is reached with both the timer's channel and Done() ready,
\* the Done case is taken.
CancellationWinsRace ==
  [][(pc = "select" /\ timerReady /\ ctxErr # NilErr /\ pc' # pc) => sel' = "done"]_vars

\* C15 as stated: after opts.retries failed attempts Retry has called onRetry and
\* waited only opts.retries - 1 times: nothing follows the last attempt.
NoRetryAfterLastAttempt ==
  (pc = "done" /\ opts.retries >= 1 /\ calls = opts.retries /\ ~IsOK(resp, err))
    => (onRetryCount = opts.retries - 1 /\ waits = opts.retries - 1)

\* C15 amended: onRetry and the wait follow a failed attempt exactly when the
\* predicate allows the retry, whether or not attempts remain: after opts.retries
\* failed attempts, onRetry was called and a wait started opts.retries times when the
\* predicate allowed the retry of the last one (the last call of onRetry has its
\* number and error), and opts.retries - 1 times when it rejected it.
RetryAfterEveryAllowedFailure ==
  (pc = "done" /\ opts.retries >= 1 /\ calls = opts.retries /\ ~IsOK(resp, err))
    => IF RetryIf(opts.retryIf, err)
       THEN /\ onRetryCount = opts.retries
            /\ waits = opts.retries
            /\ onRetryArgs = <<opts.retries, err>>
       ELSE /\ onRetryCount = opts.retries - 1
            /\ waits = opts.retries - 1

\* C15 witness: the third of three attempts failed, onRetry was called a third time
\* and the third wait elapsed before Retry returned
WaitedAfterLastAttempt ==
  /\ pc = "done"
  /\ opts.retries = 3
  /\ n = 3
  /\ onRetryCount = 3
  /\ onRetryArgs[1] = 3
  /\ waits = 3
  /\ timerReady

\* C16: the k-th call of onRetry gets the number k and the error of the k-th attempt;
\* it is made when k attempts have returned, before the k-th wait is started and
\* before attempt k+1 is invoked; an attempt is invoked only from the head of the
\* loop, after the call of onRetry and the wait of the one before.
OnRetryOrdering ==
  [][/\ (onRetryCount' # onRetryCount) =>
          /\ pc = "retry"
          /\ onRetryCount' = onRetryCount + 1
          /\ onRetryArgs' = <<onRetryCount + 1, err>>
          /\ calls = onRetryCount + 1
          /\ calls' = calls
          /\ waits = onRetryCount
          /\ waits' = waits
     /\ (waits' # waits) =>
          /\ waits' = waits + 1
          /\ onRetryCount = waits + 1
          /\ calls = waits + 1
     /\ (calls' # calls) =>
          /\ pc = "loop"
          /\ calls' = calls + 1
          /\ onRetryCount = calls
          /\ waits = calls]_vars

\* C16 witness: the second call of onRetry, before the second wait
SecondOnRetry ==
  /\ pc = "backoff"
  /\ calls = 2
  /\ onRetryCount = 2
  /\ onRetryArgs = <<2, err>>
  /\ err.kind = "watsonx"
  /\ waits = 1

\* C17: when the operation returns a response with a status other than 200 and a
\* nil error, the error of the attempt is a WatsonxError with the status code of
\* that response.
NonOKAlwaysClassified ==
  [][(pc = "returned" /\ err = NilErr /\ ~resp.isNil /\ resp.StatusCode # 200 /\ pc' # pc)
       => (err'.kind = "watsonx" /\ err'.StatusCode = resp.StatusCode)]_vars

\* C18: a cancellation while the operation runs or has just returned changes nothing
\* but the token; the invocation returns, and its result is processed as without the
\* cancellation: a 200 response is returned, a failure goes to the predicate; the
\* cancellation error is returned only from the head of the loop or from the select.
AttemptNotCancelled ==
  [][/\ (ctxErr' # ctxErr /\ pc \in {"call", "returned"}) =>
          UNCHANGED <<pc, n, resp, err, lastErr, ret, calls, onRetryCount, waits>>
     /\ (pc = "call" /\ pc' # pc) => pc' = "returned"
     /\ (pc = "returned" /\ pc' # pc) =>
          IF IsOK(resp, err)
          THEN pc' = "done" /\ ret' = Returned(resp, NilErr)
          ELSE IF RetryIf(opts.retryIf, Classify(resp, err).err)
               THEN pc' = "retry" /\ ret' = ret
               ELSE pc' = "done" /\ ret' = Returned(NilResp, Classify(resp, err).err)
     /\ (ret' # ret /\ ret'.err = Canceled) => pc \in {"loop", "resume"}]_vars

\* C18 witness: the token was cancelled during the first attempt, which succeeded
CancelledInFlightSucceeded ==
  /\ pc = "done"
  /\ ctxErr = Canceled
  /\ calls = 1
  /\ IsOK(ret.resp, ret.err)

\* C19: every wait asked of the timer lasts at least opts.backoff; with
\* opts.maxJitter > 0 it lasts less than opts.backoff + opts.maxJitter, and
\* otherwise exactly opts.backoff.
WaitDurationBounds ==
  waits >= 1 =>
    /\ backoffDuration >= opts.backoff
    /\ (opts.maxJitter > 0 => backoffDuration < opts.backoff + opts.maxJitter)
    /\ (opts.maxJitter <= 0 => backoffDuration = opts.backoff)

\* C19 witness: a wait with one second of jitter
JitteredWait ==
  /\ pc = "parked"
  /\ opts.backoff = 1
  /\ opts.maxJitter = 2
  /\ backoffDuration = 2

\* the terminal outcomes of Retry, read off the state at the return
TSuccess == IsOK(ret.resp, ret.err)

TCancelled == ctxErr = Canceled /\ ret = Returned(NilResp, Canceled)

TExhausted == ~(n < opts.retries) /\ ret = Returned(NilResp, lastErr) /\ lastErr # Canceled

TAborted ==
  /\ n < opts.retries
  /\ ~IsOK(resp, err)
  /\ ~RetryIf(opts.retryIf, err)
  /\ ret = Returned(NilResp, err)
  /\ err # Canceled

\* C20: the operation is invoked at most opts.retries times; when the goroutine keeps
\* running, every call of the operation returns and every timer fires, Retry returns;
\* and at the return exactly one of Success, Aborted, Exhausted and Cancelled holds.
BoundedTermination ==
  /\ [](calls <= opts.retries)
  /\ <>(pc = "done")
  /\ [](pc = "done" =>
         Cardinality({o \in {"Success", "Aborted", "Exhausted", "Cancelled"} :
                        CASE o = "Success"   -> TSuccess
                          [] o = "Aborted"   -> TAborted
                          [] o = "Exhausted" -> TExhausted
                          [] o = "Cancelled" -> TCancelled}) = 1)

\* C20 witness: the predicate rejected the error of the second attempt, after one wait
AbortedOnSecondAttempt ==
  /\ pc = "done"
  /\ calls = 2
  /\ waits = 1
  /\ timerReady
  /\ TAborted

====
